---- MODULE Spec2Model ----
(***************************************************************************)
(* Model of the genetic algorithm of heuristica.py (AlgoritmoGenetico).    *)
(*                                                                         *)
(* A solution is a Python dict  worker id -> list of item ids.  The lists  *)
(* are objects with identity: dict.copy() is shallow, so a copy shares its *)
(* lists with the original.  The model therefore keeps the lists in a heap *)
(* (address -> sequence of item ids) and a dict is the ordered sequence of *)
(* its entries [k |-> worker id, v |-> address of the list].  No code path *)
(* ever adds or removes a key of a finished dict, so a dict is a value.    *)
(*                                                                         *)
(* Weights, capacities and fitness values are floats in the program; the   *)
(* model uses naturals.  random.random() returns a multiple of 2^-53 in    *)
(* [0, 1), 0.0 included; the model draws d / DrawDen with d in             *)
(* 0 .. DrawDen-1 and keeps the rates over the same denominator.           *)
(***************************************************************************)
EXTENDS Integers, Sequences, FiniteSets, TLC

VARIABLES funcionarios, processos,
          num_geracoes, tamanho_populacao, taxa_mutacao, taxa_crossover,
          melhor_solucao, melhor_fitness,
          heap, populacao, fitness_populacao, melhores_solucoes,
          nova_populacao, pai1, pai2, filho, geracao, pc, erro, retorno

vars == <<funcionarios, processos,
          num_geracoes, tamanho_populacao, taxa_mutacao, taxa_crossover,
          melhor_solucao, melhor_fitness,
          heap, populacao, fitness_populacao, melhores_solucoes,
          nova_populacao, pai1, pai2, filho, geracao, pc, erro, retorno>>

locais == <<pai1, pai2, filho>>

dominio == <<processos, num_geracoes, tamanho_populacao, taxa_mutacao,
             taxa_crossover>>

----------------------------------------------------------------------------
(* Bounds of the model *)

MaxFunc == 2
MaxProc == 2
MaxPop  == 4
MaxGer  == 3
DrawDen == 2

(* float('inf'): larger than every fitness the bounded model can produce *)
Inf == 999999999

(* multiplier of the capacity penalty *)
Penalidade == 1000

----------------------------------------------------------------------------
(* Generic helpers on sequences *)

SeqMax(s) == CHOOSE x \in {s[i] : i \in DOMAIN s} :
                 \A j \in DOMAIN s : s[j] <= x

SeqMin(s) == CHOOSE x \in {s[i] : i \in DOMAIN s} :
                 \A j \in DOMAIN s : x <= s[j]

Range(s) == {s[i] : i \in DOMAIN s}

(* list.remove(x): drops the first occurrence of x *)
RECURSIVE RemoveFirst(_, _)
RemoveFirst(s, x) ==
    IF s = <<>> THEN <<>>
    ELSE IF Head(s) = x THEN Tail(s)
    ELSE <<Head(s)>> \o RemoveFirst(Tail(s), x)

(* sorted(..., key) and list.sort(key): stable, ascending by key.  The
   elements are records [key, val]; an element goes after the elements with
   an equal key that came before it. *)
RECURSIVE InsertSorted(_, _)
InsertSorted(s, e) ==
    IF s = <<>> THEN <<e>>
    ELSE IF e.key < Head(s).key THEN <<e>> \o s
    ELSE <<Head(s)>> \o InsertSorted(Tail(s), e)

RECURSIVE StableSort(_)
StableSort(s) ==
    IF s = <<>> THEN <<>>
    ELSE InsertSorted(StableSort(SubSeq(s, 1, Len(s) - 1)), s[Len(s)])

(* iteration order of a set of small non-negative ints: ascending *)
RECURSIVE SetToSeq(_)
SetToSeq(S) ==
    IF S = {} THEN <<>>
    ELSE LET m == CHOOSE x \in S : \A y \in S : x <= y
         IN  <<m>> \o SetToSeq(S \ {m})

----------------------------------------------------------------------------
(* Solutions under construction: defaultdict(list), by value *)

HasKey(d, k) == \E i \in DOMAIN d : d[i].k = k

KeyIndex(d, k) == CHOOSE i \in DOMAIN d : d[i].k = k

(* solucao[k].append(x) on a defaultdict(list) *)
DefaultAppend(d, k, x) ==
    IF HasKey(d, k)
    THEN [d EXCEPT ![KeyIndex(d, k)].itens = Append(@, x)]
    ELSE Append(d, [k |-> k, itens |-> <<x>>])

(* The smallest n addresses not in use *)
RECURSIVE FreshAddrs(_, _)
FreshAddrs(used, n) ==
    IF n = 0 THEN <<>>
    ELSE LET a == CHOOSE x \in 1..(Cardinality(used) + 1) : x \notin used
         IN  <<a>> \o FreshAddrs(used \cup {a}, n - 1)

(* dict(solucao): the finished dict; its lists become heap objects *)
DictOf(d, h) ==
    LET as == FreshAddrs(DOMAIN h, Len(d))
    IN  [dict |-> [i \in DOMAIN d |-> [k |-> d[i].k, v |-> as[i]]],
         heap |-> [a \in DOMAIN h \cup Range(as) |->
                      IF a \in DOMAIN h THEN h[a]
                      ELSE d[CHOOSE i \in DOMAIN d : as[i] = a].itens]]

(* The content of a dict: worker id -> sequence of item ids, in key order *)
Conteudo(dict, h) ==
    [i \in DOMAIN dict |-> [k |-> dict[i].k, itens |-> h[dict[i].v]]]

(* All item ids of a dict, flattened in key order *)
RECURSIVE Flatten(_)
Flatten(c) ==
    IF c = <<>> THEN <<>> ELSE Head(c).itens \o Flatten(Tail(c))

----------------------------------------------------------------------------
(* Domain lookups *)

(* the filter on the specialties left out *)
CompativeisSemFiltro(fs, categoria) == fs

(* [f for f in funcionarios if categoria in f.especialidades] *)
Compativeis(fs, categoria) ==
    SelectSeq(fs, LAMBDA f : categoria \in f.especialidades)

(* next(f for f in self.funcionarios if f.id == func_id): index of the
   first worker with that id *)
FuncPorId(fs, func_id) ==
    CHOOSE i \in DOMAIN fs :
        /\ fs[i].id = func_id
        /\ \A j \in 1..(i - 1) : fs[j].id # func_id

(* next(p for p in self.processos if p.id == proc_id) *)
ProcPorId(ps, proc_id) ==
    ps[CHOOSE i \in DOMAIN ps :
           /\ ps[i].id = proc_id
           /\ \A j \in 1..(i - 1) : ps[j].id # proc_id]

(* self.processos[processo_id]: positional, 0-based *)
ProcPorPos(ps, processo_id) == ps[processo_id + 1]

----------------------------------------------------------------------------
(* gerar_solucao_aleatoria.  esc[i] is the outcome of the random.choice
   made for the i-th item of the urgency order. *)

ProcessosOrdenados(ps) ==
    LET ordenados == StableSort([i \in DOMAIN ps |->
                                    [key |-> 0 - ps[i].urgencia, val |-> ps[i]]])
    IN  [i \in DOMAIN ordenados |-> ordenados[i].val]

RECURSIVE GerarRec(_, _, _, _, _)
GerarRec(fs, ordenados, esc, i, solucao) ==
    IF i > Len(ordenados) THEN solucao
    ELSE LET processo == ordenados[i]
             funcionarios_compativeis == Compativeis(fs, processo.categoria)
         IN  IF funcionarios_compativeis = <<>>
             THEN GerarRec(fs, ordenados, esc, i + 1, solucao)
             ELSE GerarRec(fs, ordenados, esc, i + 1,
                      DefaultAppend(solucao,
                                    funcionarios_compativeis[esc[i]].id,
                                    processo.id))

gerar_solucao_aleatoria(fs, ps, esc) ==
    GerarRec(fs, ProcessosOrdenados(ps), esc, 1, <<>>)

(* The outcomes random.choice can have for each item of a sequence of
   item records: an index into the item's compatible workers (1 when the
   item has none and no choice is made) *)
Escolhas(fs, itens) ==
    {esc \in [DOMAIN itens -> 1..Len(fs)] :
        \A i \in DOMAIN itens :
            LET n == Len(Compativeis(fs, itens[i].categoria))
            IN  IF n = 0 THEN esc[i] = 1 ELSE esc[i] <= n}

----------------------------------------------------------------------------
(* calcular_fitness: works on the shared carga_atual fields of the worker
   records and leaves them behind. *)

RECURSIVE AcumulaItens(_, _, _, _)
AcumulaItens(fs, ps, fi, processos_ids) ==
    IF processos_ids = <<>> THEN fs
    ELSE AcumulaItens(
            [fs EXCEPT ![fi].carga_atual =
                           @ + ProcPorId(ps, Head(processos_ids)).peso],
            ps, fi, Tail(processos_ids))

RECURSIVE AcumulaCargas(_, _, _)
AcumulaCargas(fs, ps, conteudo) ==
    IF conteudo = <<>> THEN fs
    ELSE AcumulaCargas(
            AcumulaItens(fs, ps, FuncPorId(fs, Head(conteudo).k),
                         Head(conteudo).itens),
            ps, Tail(conteudo))

(* the reset of the loads left out *)
CargasMantidas(fs) == fs

ReiniciaCargas(fs) == [i \in DOMAIN fs |-> [fs[i] EXCEPT !.carga_atual = 0]]

CargasCalculadas(fs, ps, conteudo) ==
    AcumulaCargas(ReiniciaCargas(fs), ps, conteudo)

RECURSIVE PenalidadeDe(_)
PenalidadeDe(fs) ==
    IF fs = <<>> THEN 0
    ELSE (IF Head(fs).carga_atual > Head(fs).carga_horaria
          THEN (Head(fs).carga_atual - Head(fs).carga_horaria) * Penalidade
          ELSE 0) + PenalidadeDe(Tail(fs))

(* the value returned, given the worker records after the accumulation *)
FitnessDasCargas(fs) ==
    LET cargas == [i \in DOMAIN fs |-> fs[i].carga_atual]
    IN  (SeqMax(cargas) - SeqMin(cargas)) + PenalidadeDe(fs)

calcular_fitness(fs, ps, conteudo) ==
    FitnessDasCargas(CargasCalculadas(fs, ps, conteudo))

----------------------------------------------------------------------------
(* crossover.  draw is the outcome of random.random() (over DrawDen), esc
   the outcomes of random.choice for the items of the union in iteration
   order.  Returns the child dict and the heap holding its lists. *)

TodosProcessos(p1, p2, h) ==
    Range(Flatten(Conteudo(p1, h))) \cup Range(Flatten(Conteudo(p2, h)))

RECURSIVE DistribuiRec(_, _, _, _, _, _)
DistribuiRec(fs, ps, ids, esc, i, novo) ==
    IF i > Len(ids) THEN novo
    ELSE LET processo_id == ids[i]
             funcionarios_compativeis ==
                 Compativeis(fs, ProcPorPos(ps, processo_id).categoria)
         IN  IF funcionarios_compativeis # <<>>
             THEN DistribuiRec(fs, ps, ids, esc, i + 1,
                      DefaultAppend(novo,
                                    funcionarios_compativeis[esc[i]].id,
                                    processo_id))
             ELSE DistribuiRec(fs, ps, ids, esc, i + 1, novo)

(* if random.random() > self.taxa_crossover *)
SemCrossover(draw, taxa) == draw > taxa

crossover(fs, ps, taxa, p1, p2, h, draw, esc) ==
    IF SemCrossover(draw, taxa)
    THEN [dict |-> p1, heap |-> h]
    ELSE DictOf(DistribuiRec(fs, ps,
                             SetToSeq(TodosProcessos(p1, p2, h)),
                             esc, 1, <<>>), h)

(* the item records the random choices of the recombination are made for *)
ItensDoCrossover(ps, p1, p2, h) ==
    LET ids == SetToSeq(TodosProcessos(p1, p2, h))
    IN  [i \in DOMAIN ids |-> ProcPorPos(ps, ids[i])]

----------------------------------------------------------------------------
(* mutacao, in place on the lists of solucao.  draw is the outcome of
   random.random(), ip the position random.choice picks in todos_processos,
   ef the position it picks in funcionarios_compativeis.  Returns the heap
   after the call and the exception it raised, if any. *)

(* if random.random() > self.taxa_mutacao *)
SemMutacao(draw, taxa) == draw > taxa

(* the removal from the current worker left out *)
SemRemocao(solucao, h, processo_id) == h

(* for func_id in solucao: if processo_id in solucao[func_id]: remove; break *)
RemoveAtribuicao(solucao, h, processo_id) ==
    IF \E i \in DOMAIN solucao : processo_id \in Range(h[solucao[i].v])
    THEN LET i == CHOOSE x \in DOMAIN solucao :
                      /\ processo_id \in Range(h[solucao[x].v])
                      /\ \A y \in 1..(x - 1) :
                             processo_id \notin Range(h[solucao[y].v])
         IN  [h EXCEPT ![solucao[i].v] = RemoveFirst(@, processo_id)]
    ELSE h

(* solucao[funcionario.id].append(processo_id) on a plain dict *)
Reatribui(solucao, h, func_id, processo_id) ==
    IF HasKey(solucao, func_id)
    THEN [heap |-> [h EXCEPT ![solucao[KeyIndex(solucao, func_id)].v] =
                                  Append(@, processo_id)],
          erro |-> ""]
    ELSE [heap |-> h, erro |-> "KeyError"]

mutacao(fs, ps, taxa, solucao, h, draw, ip, ef) ==
    IF SemMutacao(draw, taxa) THEN [heap |-> h, erro |-> ""]
    ELSE LET todos_processos == Flatten(Conteudo(solucao, h))
         IN  IF todos_processos = <<>> THEN [heap |-> h, erro |-> ""]
             ELSE LET processo_id == todos_processos[ip]
                      processo == ProcPorPos(ps, processo_id)
                      h1 == RemoveAtribuicao(solucao, h, processo_id)
                      funcionarios_compativeis ==
                          Compativeis(fs, processo.categoria)
                  IN  IF funcionarios_compativeis # <<>>
                      THEN Reatribui(solucao, h1,
                                     funcionarios_compativeis[ef].id,
                                     processo_id)
                      ELSE [heap |-> h1, erro |-> ""]

(* positions random.choice can pick in a sequence (1 when it is empty and
   no choice is made) *)
Posicoes(s) == IF s = <<>> THEN {1} ELSE DOMAIN s

(* the compatible workers mutacao chooses among once it picked position ip *)
CompativeisDaMutacao(fs, ps, solucao, h, ip) ==
    LET todos_processos == Flatten(Conteudo(solucao, h))
    IN  IF todos_processos = <<>> THEN <<>>
        ELSE Compativeis(fs, ProcPorPos(ps, todos_processos[ip]).categoria)

----------------------------------------------------------------------------
(* Domain data and configurations the runs start from *)

(* worker k: id k; the workers know categories {1, 2}, {1}, {2} in turn;
   no worker knows category 3 *)
Especialidades(k) ==
    IF k % 3 = 1 THEN {1, 2} ELSE IF k % 3 = 2 THEN {1} ELSE {2}

CargaHoraria(k) == k + 1

(* item at position i (1-based): id i - 1, weight i, urgency 1 or 2 so that
   the urgency order differs from the input order *)
Peso(i) == i

Urgencia(i) == 1 + ((i - 1) % 2)

(* category of the item at position i: every item in category 1, or the
   categories in turn starting from 1, or in turn starting from 3 *)
Padroes == {"todos1", "ciclo1", "ciclo3"}

Categoria(padrao, i) ==
    IF padrao = "todos1" THEN 1
    ELSE IF padrao = "ciclo1" THEN ((i - 1) % 3) + 1
    ELSE ((i + 1) % 3) + 1

FuncionariosPossiveis ==
    {[k \in 1..n |-> [id |-> k,
                      especialidades |-> Especialidades(k),
                      carga_horaria |-> CargaHoraria(k),
                      carga_atual |-> 0]] : n \in 1..MaxFunc}

ProcessosPossiveis ==
    {[i \in 1..m |-> [id |-> i - 1,
                      categoria |-> Categoria(padrao, i),
                      peso |-> Peso(i),
                      urgencia |-> Urgencia(i)]]
     : m \in 0..MaxProc, padrao \in Padroes}

(* rates 0.0 and 1.0 over DrawDen; the valid configurations give both
   operators the same rate *)
TaxasValidas == {0, DrawDen}

(* populations above 2 are run on the domains with at most one item *)
Populacoes(ps) == IF Len(ps) <= 1 THEN 2..MaxPop ELSE {2}

Configs(ps) ==
    {[g |-> g, p |-> p, tm |-> t, tc |-> t] :
        g \in 0..MaxGer, p \in Populacoes(ps), t \in TaxasValidas}
    \cup {[g |-> 0 - 1, p |-> 2, tm |-> 0, tc |-> 0],
          [g |-> 1, p |-> 0, tm |-> 0, tc |-> 0],
          [g |-> 1, p |-> 1, tm |-> 0, tc |-> 0],
          [g |-> 1, p |-> 2, tm |-> 0 - 1, tc |-> DrawDen],
          [g |-> 1, p |-> 2, tm |-> DrawDen + 1, tc |-> 0],
          [g |-> 1, p |-> 2, tm |-> DrawDen, tc |-> 0 - 1],
          [g |-> 1, p |-> 2, tm |-> 0, tc |-> DrawDen + 1]}

Draws == 0..(DrawDen - 1)

----------------------------------------------------------------------------
(* State after AlgoritmoGenetico(...), adicionar_funcionario and
   adicionar_processo; executar has not been called yet *)

Init ==
    /\ funcionarios \in FuncionariosPossiveis
    /\ processos \in ProcessosPossiveis
    /\ \E c \in Configs(processos) :
          /\ num_geracoes = c.g
          /\ tamanho_populacao = c.p
          /\ taxa_mutacao = c.tm
          /\ taxa_crossover = c.tc
    /\ melhor_solucao = <<>>
    /\ melhor_fitness = Inf
    /\ heap = <<>>
    /\ populacao = <<>>
    /\ fitness_populacao = <<>>
    /\ melhores_solucoes = <<>>
    /\ nova_populacao = <<>>
    /\ pai1 = <<>>
    /\ pai2 = <<>>
    /\ filho = <<>>
    /\ geracao = 0
    /\ pc = "new"
    /\ erro = ""
    /\ retorno = <<>>

----------------------------------------------------------------------------
(* executar, one action per step *)

(* for geracao in range(self.num_geracoes): where the loop goes with the
   next value g *)
LacoOuFim(g) == IF g < num_geracoes THEN "score" ELSE "fim"

(* lists still referenced by the population or the tracker *)
ListasDe(dicts) ==
    UNION {{dicts[i][j].v : j \in DOMAIN dicts[i]} : i \in DOMAIN dicts}

Alcancaveis(pop, melhor) == ListasDe(pop) \cup ListasDe(melhor)

(* executar is called: iniciar_metricas, then the initial population is to
   be built *)
Executar ==
    /\ pc = "new"
    /\ pc' = "init"
    /\ UNCHANGED <<locais, funcionarios, dominio, melhor_solucao, melhor_fitness, heap,
                   populacao, fitness_populacao, melhores_solucoes,
                   nova_populacao, geracao, erro, retorno>>

(* one element of [self.gerar_solucao_aleatoria() for _ in range(P)] *)
GerarMembro ==
    /\ pc = "init"
    /\ Len(populacao) < tamanho_populacao
    /\ \E esc \in Escolhas(funcionarios, ProcessosOrdenados(processos)) :
          LET r == DictOf(gerar_solucao_aleatoria(funcionarios, processos, esc),
                          heap)
          IN  /\ populacao' = Append(populacao, r.dict)
              /\ heap' = r.heap
    /\ UNCHANGED <<locais, funcionarios, dominio, melhor_solucao, melhor_fitness,
                   fitness_populacao, melhores_solucoes, nova_populacao,
                   geracao, pc, erro, retorno>>

(* the population is complete: enter the generation loop or skip it *)
EntrarLaco ==
    /\ pc = "init"
    /\ Len(populacao) >= tamanho_populacao
    /\ pc' = LacoOuFim(0)
    /\ geracao' = 0
    /\ UNCHANGED <<locais, funcionarios, dominio, melhor_solucao, melhor_fitness, heap,
                   populacao, fitness_populacao, melhores_solucoes,
                   nova_populacao, erro, retorno>>

(* one element of [(sol, self.calcular_fitness(sol)) for sol in populacao] *)
Avaliar ==
    /\ pc = "score"
    /\ Len(fitness_populacao) < Len(populacao)
    /\ LET sol == populacao[Len(fitness_populacao) + 1]
           fs  == CargasCalculadas(funcionarios, processos, Conteudo(sol, heap))
       IN  /\ funcionarios' = fs
           /\ fitness_populacao' =
                  Append(fitness_populacao,
                         [sol |-> sol, fit |-> FitnessDasCargas(fs)])
    /\ UNCHANGED <<locais, dominio, melhor_solucao, melhor_fitness, heap, populacao,
                   melhores_solucoes, nova_populacao, geracao, pc, erro,
                   retorno>>

(* fitness_populacao.sort(key=lambda x: x[1]) *)
Ordenada(fp) ==
    LET o == StableSort([i \in DOMAIN fp |-> [key |-> fp[i].fit, val |-> fp[i]]])
    IN  [i \in DOMAIN o |-> o[i].val]

(* a tie replaces the tracked solution *)
MelhorouOuEmpatou(fit, melhor) == fit <= melhor

(* if fitness_populacao[0][1] < self.melhor_fitness *)
Melhorou(fit, melhor) == fit < melhor

(* s[:n] *)
Prefixo(s, n) ==
    IF n >= 0 THEN SubSeq(s, 1, IF n < Len(s) THEN n ELSE Len(s))
    ELSE SubSeq(s, 1, IF Len(s) + n > 0 THEN Len(s) + n ELSE 0)

(* sort, update of the tracker, selection of the survivors and start of
   the new population *)
Selecionar ==
    /\ pc = "score"
    /\ Len(fitness_populacao) = Len(populacao)
    /\ LET fp == Ordenada(fitness_populacao)
       IN  IF fp = <<>>
           THEN /\ pc' = "error"
                /\ erro' = "IndexError"
                /\ UNCHANGED <<fitness_populacao, melhor_solucao,
                               melhor_fitness, melhores_solucoes,
                               nova_populacao>>
           ELSE LET sobreviventes == Prefixo(fp, tamanho_populacao \div 2)
                    melhores == [i \in DOMAIN sobreviventes |->
                                    sobreviventes[i].sol]
                IN  /\ fitness_populacao' = fp
                    /\ IF Melhorou(fp[1].fit, melhor_fitness)
                       THEN /\ melhor_solucao' = <<fp[1].sol>>
                            /\ melhor_fitness' = fp[1].fit
                       ELSE UNCHANGED <<melhor_solucao, melhor_fitness>>
                    /\ melhores_solucoes' = melhores
                    /\ nova_populacao' = melhores
                    /\ pc' = "breed"
                    /\ erro' = erro
    /\ UNCHANGED <<locais, funcionarios, dominio, heap, populacao, geracao, retorno>>

(* first half of an iteration of the while loop: random.choice of the two
   parents (IndexError when there is no survivor) and crossover *)
Cruzar ==
    /\ pc = "breed"
    /\ Len(nova_populacao) < tamanho_populacao
    /\ IF melhores_solucoes = <<>>
       THEN /\ pc' = "error"
            /\ erro' = "IndexError"
            /\ UNCHANGED <<heap, pai1, pai2, filho>>
       ELSE \E i1 \in DOMAIN melhores_solucoes,
               i2 \in DOMAIN melhores_solucoes,
               draw \in Draws :
            LET p1 == melhores_solucoes[i1]
                p2 == melhores_solucoes[i2]
            IN  \E esc \in Escolhas(funcionarios,
                              ItensDoCrossover(processos, p1, p2, heap)) :
                LET f == crossover(funcionarios, processos, taxa_crossover,
                                   p1, p2, heap, draw, esc)
                IN  /\ pai1' = <<p1>>
                    /\ pai2' = <<p2>>
                    /\ filho' = <<f.dict>>
                    /\ heap' = f.heap
                    /\ pc' = "mutate"
                    /\ erro' = erro
    /\ UNCHANGED <<funcionarios, dominio, melhor_solucao, melhor_fitness,
                   populacao, fitness_populacao, melhores_solucoes,
                   nova_populacao, geracao, retorno>>

(* second half: self.mutacao(filho) and nova_populacao.append(filho); a
   KeyError raised by mutacao ends the run *)
Mutar ==
    /\ pc = "mutate"
    /\ \E draw \in Draws,
          ip \in Posicoes(Flatten(Conteudo(filho[1], heap))) :
       \E ef \in Posicoes(CompativeisDaMutacao(funcionarios, processos,
                                               filho[1], heap, ip)) :
          LET m == mutacao(funcionarios, processos, taxa_mutacao,
                           filho[1], heap, draw, ip, ef)
          IN  /\ heap' = m.heap
              /\ IF m.erro = ""
                 THEN /\ nova_populacao' = Append(nova_populacao, filho[1])
                      /\ pc' = "breed"
                      /\ erro' = erro
                      /\ pai1' = <<>>
                      /\ pai2' = <<>>
                      /\ filho' = <<>>
                 ELSE /\ pc' = "error"
                      /\ erro' = m.erro
                      /\ UNCHANGED <<nova_populacao, pai1, pai2, filho>>
    /\ UNCHANGED <<funcionarios, dominio, melhor_solucao, melhor_fitness,
                   populacao, fitness_populacao, melhores_solucoes, geracao,
                   retorno>>

(* populacao = nova_populacao and the next turn of the for loop.  The lists
   nothing refers to any more are dropped from the heap; the locals of the
   finished generation are dead until they are assigned again. *)
ProximaGeracao ==
    /\ pc = "breed"
    /\ Len(nova_populacao) >= tamanho_populacao
    /\ populacao' = nova_populacao
    /\ heap' = [a \in DOMAIN heap \cap Alcancaveis(nova_populacao,
                                                  melhor_solucao) |-> heap[a]]
    /\ fitness_populacao' = <<>>
    /\ melhores_solucoes' = <<>>
    /\ nova_populacao' = <<>>
    /\ geracao' = geracao + 1
    /\ pc' = LacoOuFim(geracao + 1)
    /\ UNCHANGED <<funcionarios, dominio, melhor_solucao, melhor_fitness, erro,
                   retorno, locais>>

(* return self.melhor_solucao *)
Retornar ==
    /\ pc = "fim"
    /\ retorno' = melhor_solucao
    /\ pc' = "done"
    /\ UNCHANGED <<locais, funcionarios, dominio, melhor_solucao, melhor_fitness, heap,
                   populacao, fitness_populacao, melhores_solucoes,
                   nova_populacao, geracao, erro>>

Next ==
    \/ Executar
    \/ GerarMembro
    \/ EntrarLaco
    \/ Avaliar
    \/ Selecionar
    \/ Cruzar
    \/ Mutar
    \/ ProximaGeracao
    \/ Retornar

Spec == Init /\ [][Next]_vars

----------------------------------------------------------------------------
(* Properties *)

(* the configurations the specification calls valid *)
ConfigValida(g, p, tm, tc) ==
    /\ g >= 0
    /\ p >= 2
    /\ tm >= 0 /\ tm <= DrawDen
    /\ tc >= 0 /\ tc <= DrawDen

(* every dict some variable of the run refers to *)
TodasSolucoes ==
    Range(populacao) \cup Range(nova_populacao) \cup Range(melhores_solucoes)
    \cup {fitness_populacao[i].sol : i \in DOMAIN fitness_populacao}
    \cup Range(melhor_solucao) \cup Range(retorno)
    \cup Range(pai1) \cup Range(pai2) \cup Range(filho)

SemRepeticao(s) == \A i, j \in DOMAIN s : s[i] = s[j] => i = j

(* the item ids assigned by a dict, with their number *)
Atribuidos(dict, h) ==
    LET todos == Flatten(Conteudo(dict, h))
    IN  [ids |-> Range(todos), n |-> Len(todos)]

(* the load of the worker func_id in a content, from the definition: the
   weights of the items listed under it *)
PesoDoItem(id) == (CHOOSE p \in Range(processos) : p.id = id).peso

ItensDe(c, func_id) ==
    UNION {Range(c[i].itens) : i \in {x \in DOMAIN c : c[x].k = func_id}}

RECURSIVE SomaPesos(_)
SomaPesos(ids) ==
    IF ids = {} THEN 0
    ELSE LET x == CHOOSE y \in ids : TRUE
         IN  PesoDoItem(x) + SomaPesos(ids \ {x})

CargaDefinida(c, func_id) == SomaPesos(ItensDe(c, func_id))

RECURSIVE SomaExcessos(_, _)
SomaExcessos(c, ws) ==
    IF ws = {} THEN 0
    ELSE LET w == CHOOSE y \in ws : TRUE
             carga == CargaDefinida(c, funcionarios[w].id)
             cap == funcionarios[w].carga_horaria
         IN  (IF carga > cap THEN 1000 * (carga - cap) ELSE 0)
             + SomaExcessos(c, ws \ {w})

FitnessDefinido(c) ==
    LET cargas == {CargaDefinida(c, funcionarios[w].id) : w \in DOMAIN funcionarios}
        maior == CHOOSE x \in cargas : \A y \in cargas : y <= x
        menor == CHOOSE x \in cargas : \A y \in cargas : x <= y
    IN  (maior - menor) + SomaExcessos(c, DOMAIN funcionarios)

(* C7: while a population is being scored, every fitness recorded so far is
   the load spread over all workers plus 1000 per unit of load above
   capacity, computed from the scored solution alone, whatever carga_atual
   values the earlier evaluations left behind. *)
C7_FitnessDefinition ==
    pc = "score" =>
        \A i \in DOMAIN fitness_populacao :
            fitness_populacao[i].fit =
                FitnessDefinido(Conteudo(fitness_populacao[i].sol, heap))

(* two solutions of different fitness scored one after the other, one with
   a capacity penalty and one leaving a worker without items *)
C7_Witness ==
    /\ pc = "score"
    /\ Len(fitness_populacao) >= 2
    /\ fitness_populacao[1].fit > 1000
    /\ fitness_populacao[2].fit < 1000
    /\ fitness_populacao[2].fit > 0
    /\ \E w \in DOMAIN funcionarios : funcionarios[w].carga_atual = 0

(* the lowest fitness of the population scored in this generation *)
MenorFitness(fp) ==
    CHOOSE x \in {fp[i].fit : i \in DOMAIN fp} :
        \A j \in DOMAIN fp : x <= fp[j].fit

(* C8: the tracked best fitness starts at +infinity, never increases, and
   the tracker (melhor_solucao, melhor_fitness) changes only in the step
   that follows the scoring of a generation whose lowest fitness is strictly
   below the tracked value, which becomes that lowest fitness. *)
C8_MonotonicBest ==
    /\ melhor_fitness = Inf
    /\ melhor_solucao = <<>>
    /\ [][/\ melhor_fitness' <= melhor_fitness
          /\ (melhor_fitness' # melhor_fitness
                \/ melhor_solucao' # melhor_solucao) =>
                 /\ pc = "score"
                 /\ fitness_populacao # <<>>
                 /\ Len(fitness_populacao) = Len(populacao)
                 /\ MenorFitness(fitness_populacao) < melhor_fitness
                 /\ melhor_fitness' = MenorFitness(fitness_populacao)]_vars

(* a later generation was scored whose best member ties with the tracked
   fitness and is another solution than the tracked one; the tracker kept
   the earlier solution *)
C8_Witness ==
    /\ pc = "breed"
    /\ geracao >= 1
    /\ fitness_populacao[1].fit = melhor_fitness
    /\ fitness_populacao[1].sol # melhor_solucao[1]

(* C4: in every solution of the run no item id is listed twice, neither
   under two workers nor twice under one. *)
C4_AssignmentExclusivity ==
    \A d \in TodasSolucoes : SemRepeticao(Flatten(Conteudo(d, heap)))

(* a child that went through mutacao holds two items under two workers *)
C4_Witness ==
    /\ pc = "breed"
    /\ Len(nova_populacao) > Len(melhores_solucoes)
    /\ LET c == Conteudo(nova_populacao[Len(nova_populacao)], heap)
       IN  /\ Len(c) = 2
           /\ c[1].itens # <<>>
           /\ c[2].itens # <<>>

(* C9: every item id listed under a worker is the id of an item whose
   category is in that worker's specialty set; so an item no worker is
   compatible with is listed nowhere. *)
C9_SpecialtyCompatibility ==
    \A d \in TodasSolucoes :
        \A i \in DOMAIN d :
            \A x \in Range(heap[d[i].v]) :
                \E f \in Range(funcionarios) :
                    /\ f.id = d[i].k
                    /\ ProcPorPos(processos, x).categoria \in f.especialidades

(* a child of a domain with an item nobody is compatible with was bred and
   holds the other item *)
C9_Witness ==
    /\ pc = "breed"
    /\ Len(nova_populacao) > Len(melhores_solucoes)
    /\ \E p \in Range(processos) :
           Compativeis(funcionarios, p.categoria) = <<>>
    /\ Flatten(Conteudo(nova_populacao[Len(nova_populacao)], heap)) # <<>>

(* the configuration of the run is a valid one *)
Valida ==
    ConfigValida(num_geracoes, tamanho_populacao, taxa_mutacao, taxa_crossover)

(* C1 as claimed: in a run with a valid configuration, while the children
   of a generation are produced, the content of every survivor stays what
   it was. *)
C1_SurvivorsUnmodified ==
    [][(Valida /\ pc \in {"breed", "mutate"} /\ pc' \in {"breed", "mutate"}) =>
          \A i \in DOMAIN melhores_solucoes :
              Conteudo(melhores_solucoes[i], heap') =
                  Conteudo(melhores_solucoes[i], heap)]_vars

(* C2 as claimed: a run with a valid configuration never ends in an error,
   and when it returns it has executed num_geracoes generations and returns
   the tracked best solution. *)
C2_RunsAllGenerations ==
    Valida =>
        /\ pc # "error"
        /\ pc = "done" => (geracao = num_geracoes /\ retorno = melhor_solucao)

(* C3 as claimed: in a run with a valid configuration a call of mutacao
   changes neither the set of item ids assigned by its argument nor their
   number. *)
C3_MutationConservation ==
    [][(Valida /\ pc = "mutate") =>
          Atribuidos(filho[1], heap') = Atribuidos(filho[1], heap)]_vars

(* C5 as claimed: under an invalid configuration no population member is
   built, nothing is scored, and the run neither fails later nor returns. *)
C5_InvalidConfigRejected ==
    ~Valida =>
        /\ populacao = <<>>
        /\ fitness_populacao = <<>>
        /\ pc \notin {"error", "done"}

(* C6 as claimed: with crossover rate 0 the child has the content of pai1
   whatever the draw, and with mutation rate 0 mutacao leaves the content
   of its argument unchanged whatever the draw. *)
C6_NoOpPaths ==
    [][/\ (Valida /\ pc = "breed" /\ pc' = "mutate" /\ taxa_crossover = 0) =>
              Conteudo(filho'[1], heap') = Conteudo(pai1'[1], heap)
       /\ (Valida /\ pc = "mutate" /\ taxa_mutacao = 0) =>
              Conteudo(filho[1], heap') = Conteudo(filho[1], heap)]_vars

(* C10 as claimed: in a run with a valid configuration, whenever a
   generation is over or executar has returned, calcular_fitness of the
   tracked solution is the tracked fitness. *)
C10_TrackerConsistent ==
    (Valida /\ pc \in {"score", "fim", "done"} /\ melhor_solucao # <<>>) =>
        calcular_fitness(funcionarios, processos,
                         Conteudo(melhor_solucao[1], heap)) = melhor_fitness

====
